---- MODULE Spec2Model ----
(***************************************************************************)
(* prism: a wrapper around `go test -json`.                                *)
(*                                                                         *)
(* The module models internal.runTests (the child process, its two pipes,  *)
(* the two consumer goroutines and the main goroutine), internal           *)
(* .processEvent (the aggregator) and internal.displayResults (the         *)
(* reporter, up to the rows it hands to the table renderer).               *)
(*                                                                         *)
(* Five specifications share the variables: Spec (Execute and runTests),   *)
(* SpecEvents (processEvent fed events one by one, then consolidation and  *)
(* display), SpecWorkers (processEvent called by two goroutines at once),  *)
(* SpecReport (displayResults on the summaries runTests may return) and    *)
(* SpecLive (runTests under fair scheduling of its goroutines).            *)
(*                                                                         *)
(* Go strings are modelled as sequences of one-character strings, so that  *)
(* concatenation (the map key), strings.TrimSpace and comparison are       *)
(* computed and not assumed.  event.Elapsed (a float64 number of seconds)  *)
(* is modelled as a whole number of milliseconds and time.Duration as a    *)
(* whole number of nanoseconds.                                            *)
(***************************************************************************)
EXTENDS Integers, Sequences, FiniteSets, TLC

\* ----------------------------------------------------------------- bounds
\* Events applied by the event driver of SpecEvents.
MaxEvents == 3
\* Lines the child process writes to its standard output / standard error.
MaxLines == 3
MaxErrLines == 1
\* Calls of processEvent made by the goroutines of SpecWorkers, in all.
MaxCalls == 3
\* TestResults of the summaries given to the reporter in SpecReport.
MaxResults == 3

\* -------------------------------------------------------------- constants
StatusRun == "run"
StatusPass == "pass"
StatusFail == "fail"
StatusSkip == "skip"
StatusOutput == "output"
StatusRunning == "running"
\* An action `go test -json` may emit that processEvent has no case for.
ActionPause == "pause"

\* time.Second, per millisecond of event.Elapsed.
NanosPerMilli == 1000000

\* ---------------------------------------------------------------- strings
Slash == <<"/">>

\* unicode.IsSpace, on the characters the model's inputs use.
IsSpace(c) == c \in {" ", "\t", "\n", "\r"}

RECURSIVE TrimLeft(_)
TrimLeft(s) == IF s # <<>> /\ IsSpace(Head(s)) THEN TrimLeft(Tail(s)) ELSE s

RECURSIVE TrimRight(_)
TrimRight(s) ==
  IF s # <<>> /\ IsSpace(s[Len(s)]) THEN TrimRight(SubSeq(s, 1, Len(s) - 1)) ELSE s

\* strings.TrimSpace
TrimSpace(s) == TrimRight(TrimLeft(s))

\* strings.TrimPrefix
TrimPrefix(s, prefix) ==
  IF Len(s) >= Len(prefix) /\ SubSeq(s, 1, Len(prefix)) = prefix
  THEN SubSeq(s, Len(prefix) + 1, Len(s))
  ELSE s

\* The byte of a character, for the characters the model's inputs use.
Byte(c) ==
  CASE c = "\t" -> 9 [] c = "\n" -> 10 [] c = "\r" -> 13 [] c = " " -> 32
    [] c = "/" -> 47 [] c = "T" -> 84 [] c = "a" -> 97 [] c = "b" -> 98
    [] c = "c" -> 99 [] c = "e" -> 101 [] c = "s" -> 115 [] c = "t" -> 116
    [] c = "x" -> 120 [] c = "y" -> 121

\* s < t on Go strings: bytewise, a proper prefix first.
RECURSIVE StringLess(_, _)
StringLess(s, t) ==
  IF t = <<>> THEN FALSE
  ELSE IF s = <<>> THEN TRUE
  ELSE IF Head(s) = Head(t) THEN StringLess(Tail(s), Tail(t))
  ELSE Byte(Head(s)) < Byte(Head(t))

\* ----------------------------------------------------------------- inputs
\* (Package, Test) pairs of the events.  The first two are different pairs
\* whose Package + "/" + Test is the same string.
TestPairs ==
  {<<<<"a">>, <<"b", "/", "c">>>>, <<<<"a", "/", "b">>, <<"c">>>>, <<<<"a">>, <<"c">>>>}
Packages == {pair[1] : pair \in TestPairs}
Outputs == {<<"x", "\n">>, <<" ", "y">>, <<" ", "\n">>}
Terminal == {StatusPass, StatusFail, StatusSkip}

\* TestEvent, without the Time field, which nothing reads.
Event(a, p, t, o, el) ==
  [Action |-> a, Package |-> p, Test |-> t, Output |-> o, Elapsed |-> el]

\* Elapsed of the terminal events, in milliseconds.
ElapsedOf(a) == CASE a = StatusPass -> 1 [] a = StatusFail -> 2 [] OTHER -> 0

TestEvents ==
  {Event(StatusRun, pair[1], pair[2], <<>>, 0) : pair \in TestPairs}
    \cup {Event(ActionPause, <<"a">>, <<"c">>, <<>>, 0)}
    \cup {Event(StatusOutput, pair[1], pair[2], o, 0) : pair \in TestPairs, o \in Outputs}
    \cup {Event(a, pair[1], pair[2], <<>>, ElapsedOf(a)) : a \in Terminal, pair \in TestPairs}
    \cup {Event(StatusFail, <<"a">>, <<>>, <<>>, 2),
          Event(StatusOutput, <<"a", "/", "b">>, <<>>, <<"x", "\n">>, 0)}

\* Lines of the structured stream: an event json.Unmarshal decodes, or a
\* line it rejects.
MalformedLine == [valid |-> FALSE]
EventLine(event) == [valid |-> TRUE, event |-> event]
StreamLines ==
  {MalformedLine}
    \cup {EventLine(Event(StatusPass, <<"a">>, <<"c">>, <<>>, 1)),
          EventLine(Event(StatusFail, <<"a">>, <<"c">>, <<>>, 2)),
          EventLine(Event(StatusOutput, <<"a">>, <<"b", "/", "c">>, <<"x", "\n">>, 0))}

\* Exit codes of the child.
ExitCodes == {0, 1, 2}

\* The summaries given to the reporter: (Package, Name) pairs with different
\* map keys, any status, and the output lines processEvent may have stored
\* (trimmed, none of them empty), one of them a `go test` delimiter line.
ReportPairs ==
  {<<<<"a">>, <<"T", "e", "s", "t", "c">>>>, <<<<"a">>, <<"b">>>>,
   <<<<"a", "/", "b">>, <<"c">>>>, <<<<"b">>, <<"c">>>>}
DelimiterLine == <<"=", "=", "=", " ", "x">>
Statuses == {StatusRunning, StatusPass, StatusFail, StatusSkip}
\* <<status, output lines>>: every status without output, and a failed and
\* a passed test with output.
ReportOutcomes ==
  (Statuses \X {<<>>})
    \cup ({StatusFail, StatusPass} \X {<<<<"x">>, DelimiterLine, <<"y">>>>})

\* The events of the concurrent calls of processEvent.
WorkerEvents ==
  {Event(StatusRun, <<"a">>, <<"b", "/", "c">>, <<>>, 0),
   Event(StatusOutput, <<"a">>, <<"c">>, <<"x", "\n">>, 0),
   Event(StatusPass, <<"a">>, <<"c">>, <<>>, 1),
   Event(StatusFail, <<"a">>, <<"c">>, <<>>, 2),
   Event(StatusSkip, <<"a", "/", "b">>, <<"c">>, <<>>, 0),
   Event(StatusPass, <<"a">>, <<>>, <<>>, 1)}

\* ------------------------------------------------------------------ state
VARIABLES
  testMap,     \* runTests' testMap: key string -> TestResult
  summary,     \* runTests' *TestSummary
  applied,     \* history: the events handed to processEvent, in order
  mainPc,      \* where the main goroutine (or the event driver) stands
  report,      \* renderBlocks of displayResults
  child,       \* the `go test` process: "none", "running", "exited"
  exitCode,    \* the exit code of the child once it has exited
  cmdErr,      \* what cmd.Wait returned
  stdoutPipe,  \* lines written to the child's stdout and not yet read
  stdoutOpen,  \* the parent's read end of the stdout pipe is open
  stderrPipe,  \* number of lines written to the child's stderr and not yet read
  stderrOpen,  \* the parent's read end of the stderr pipe is open
  written,     \* history: every line the child wrote to stdout
  errWritten,  \* history: number of lines the child wrote to stderr
  outPc,       \* the stdout goroutine: "idle", "scan", "done"
  outEnd,      \* how its scanner ended: "none", "eof", "error"
  scanBuf,     \* lines the stdout scanner has read and not yet returned
  consumed,    \* history: the lines scanner.Scan() returned
  warnings,    \* number of "Failed to unmarshal JSON event" warnings printed
  errPc,       \* the stderr goroutine: "idle", "scan", "done"
  errEnd,      \* how its scanner ended: "none", "eof", "error"
  forwarded,   \* number of stderr lines forwarded to os.Stderr
  wg,          \* the WaitGroup's counter
  ret,         \* what runTests returned: [summary, err], each nil or not
  verbose,     \* GlobalConfig.Verbose, the --verbose flag
  osExit,      \* the code Execute gave to os.Exit, or NoExit
  mu,          \* summary's mutex: NoWorker, or the goroutine that holds it
  wPc,         \* per calling goroutine: where its processEvent call stands
  wEvent,      \* per calling goroutine: the event of its call
  wExists      \* per calling goroutine: the `exists` of its map lookup

aggVars == <<testMap, summary, applied>>
childVars == <<child, exitCode, stdoutPipe, stderrPipe, written, errWritten>>
outVars == <<outPc, outEnd, scanBuf, consumed, warnings>>
errVars == <<errPc, errEnd, forwarded>>
mainVars == <<mainPc, cmdErr, stdoutOpen, stderrOpen, wg, ret, report>>
execVars == <<verbose, osExit>>
lockVars == <<mu, wPc, wEvent, wExists>>
vars == <<aggVars, childVars, outVars, errVars, mainVars, execVars, lockVars>>

\* ----------------------------------------------------------- processEvent
Key(event) == event.Package \o Slash \o event.Test

NewTestResult(event) ==
  [Name |-> event.Test, Package |-> event.Package, Status |-> StatusRunning,
   Duration |-> 0, Output |-> <<>>]

\* time.Duration(event.Elapsed * float64(time.Second))
DurationOf(elapsed) == elapsed * NanosPerMilli

Model(tm, sm) == [tm |-> tm, sm |-> sm]

\* FindOrCreate that counts the event's test in Total whether or not the map
\* holds its key.
FindOrCreateCountsAgain(event, tm, sm) ==
  IF Key(event) \in DOMAIN tm
  THEN Model(tm, [sm EXCEPT !.Total = @ + 1])
  ELSE Model(tm @@ (Key(event) :> NewTestResult(event)), [sm EXCEPT !.Total = @ + 1])

\* result, exists := testMap[key]; if !exists { ... testMap[key] = result; summary.Total++ }
FindOrCreate(event, tm, sm) ==
  IF Key(event) \in DOMAIN tm
  THEN Model(tm, sm)
  ELSE Model(tm @@ (Key(event) :> NewTestResult(event)), [sm EXCEPT !.Total = @ + 1])

\* ApplyOutput without the `if output != ""` test.
ApplyOutputUnfiltered(event, tm, sm) ==
  Model([tm EXCEPT ![Key(event)].Output = Append(@, TrimSpace(event.Output))], sm)

\* ApplyOutput that keeps the last line only.
ApplyOutputKeepsLast(event, tm, sm) ==
  LET output == TrimSpace(event.Output)
  IN  IF output # <<>>
      THEN Model([tm EXCEPT ![Key(event)].Output = <<output>>], sm)
      ELSE Model(tm, sm)

\* case StatusOutput
ApplyOutput(event, tm, sm) ==
  LET output == TrimSpace(event.Output)
  IN  IF output # <<>>
      THEN Model([tm EXCEPT ![Key(event)].Output = Append(@, output)], sm)
      ELSE Model(tm, sm)

\* the inner switch of case StatusPass, StatusFail, StatusSkip
CountTerminal(action, sm) ==
  CASE action = StatusPass -> [sm EXCEPT !.Passed = @ + 1]
    [] action = StatusFail -> [sm EXCEPT !.Failed = @ + 1]
    [] action = StatusSkip -> [sm EXCEPT !.Skipped = @ + 1]
    [] OTHER -> sm

\* ApplyTerminal that keeps the status and duration of a test that is no
\* longer running.
ApplyTerminalFirstOnly(event, tm, sm) ==
  IF tm[Key(event)].Status = StatusRunning
  THEN Model([tm EXCEPT ![Key(event)].Status = event.Action,
                        ![Key(event)].Duration = DurationOf(event.Elapsed)],
             CountTerminal(event.Action, sm))
  ELSE Model(tm, CountTerminal(event.Action, sm))

\* case StatusPass, StatusFail, StatusSkip
ApplyTerminal(event, tm, sm) ==
  Model([tm EXCEPT ![Key(event)].Status = event.Action,
                   ![Key(event)].Duration = DurationOf(event.Elapsed)],
        CountTerminal(event.Action, sm))

\* ApplyAction with a default case that marks the test failed.
ApplyActionDefaultFails(event, tm, sm) ==
  CASE event.Action = StatusOutput -> ApplyOutput(event, tm, sm)
    [] event.Action \in Terminal -> ApplyTerminal(event, tm, sm)
    [] event.Action = StatusRun -> Model(tm, sm)
    [] OTHER -> Model([tm EXCEPT ![Key(event)].Status = StatusFail],
                      [sm EXCEPT !.Failed = @ + 1])

\* switch event.Action
ApplyAction(event, tm, sm) ==
  CASE event.Action = StatusOutput -> ApplyOutput(event, tm, sm)
    [] event.Action \in Terminal -> ApplyTerminal(event, tm, sm)
    [] OTHER -> Model(tm, sm)

\* processEvent without the return for an event that names no test.
processEventNoEarlyReturn(event, tm, sm) ==
  LET found == FindOrCreate(event, tm, sm)
  IN  ApplyAction(event, found.tm, found.sm)

\* processEvent, from Lock to the deferred Unlock, as one step.
processEvent(event, tm, sm) ==
  IF event.Test = <<>>
  THEN Model(tm, sm)
  ELSE LET found == FindOrCreate(event, tm, sm)
       IN  ApplyAction(event, found.tm, found.sm)

\* ------------------------------------------------- consolidation, display
\* The orders in which `for _, result := range testMap` may visit the map.
RangeOrders(tm) ==
  {order \in [1..Cardinality(DOMAIN tm) -> DOMAIN tm] :
     \A i, j \in 1..Cardinality(DOMAIN tm) : order[i] = order[j] => i = j}

\* summary.Results = append(summary.Results, *result), for each key in `order`
Consolidated(tm, sm, order) ==
  [sm EXCEPT !.Results = @ \o [i \in 1..Len(order) |-> tm[order[i]]]]

NewPackageResults(pkgName) ==
  [Name |-> pkgName, Tests |-> <<>>, Status |-> StatusPass, Total |-> 0,
   Passed |-> 0, Failed |-> 0, Skipped |-> 0, Duration |-> 0]

\* AddTest whose switch counts a test of any other status as passed.
AddTestRunningAsPassed(pkgResults, testResult) ==
  LET base == [pkgResults EXCEPT !.Tests = Append(@, testResult),
                                 !.Total = @ + 1,
                                 !.Duration = @ + testResult.Duration]
  IN  CASE testResult.Status = StatusFail ->
             [base EXCEPT !.Failed = @ + 1, !.Status = StatusFail]
        [] testResult.Status = StatusSkip ->
             LET counted == [base EXCEPT !.Skipped = @ + 1]
             IN  IF counted.Status = StatusPass /\ counted.Skipped = counted.Total
                 THEN [counted EXCEPT !.Status = StatusSkip]
                 ELSE counted
        [] OTHER -> [base EXCEPT !.Passed = @ + 1]

\* AddTest that sets the package's duration in place of adding to it.
AddTestDurationOfLast(pkgResults, testResult) ==
  LET base == [pkgResults EXCEPT !.Tests = Append(@, testResult),
                                 !.Total = @ + 1,
                                 !.Duration = testResult.Duration]
  IN  CASE testResult.Status = StatusPass -> [base EXCEPT !.Passed = @ + 1]
        [] testResult.Status = StatusFail ->
             [base EXCEPT !.Failed = @ + 1, !.Status = StatusFail]
        [] testResult.Status = StatusSkip ->
             LET counted == [base EXCEPT !.Skipped = @ + 1]
             IN  IF counted.Status = StatusPass /\ counted.Skipped = counted.Total
                 THEN [counted EXCEPT !.Status = StatusSkip]
                 ELSE counted
        [] OTHER -> base

\* One iteration of the grouping loop of displayResults, on one package's entry.
AddTest(pkgResults, testResult) ==
  LET base == [pkgResults EXCEPT !.Tests = Append(@, testResult),
                                 !.Total = @ + 1,
                                 !.Duration = @ + testResult.Duration]
  IN  CASE testResult.Status = StatusPass -> [base EXCEPT !.Passed = @ + 1]
        [] testResult.Status = StatusFail ->
             [base EXCEPT !.Failed = @ + 1, !.Status = StatusFail]
        [] testResult.Status = StatusSkip ->
             LET counted == [base EXCEPT !.Skipped = @ + 1]
             IN  IF counted.Status = StatusPass /\ counted.Skipped = counted.Total
                 THEN [counted EXCEPT !.Status = StatusSkip]
                 ELSE counted
        [] OTHER -> base

\* groupedByPackage after the loop over overallSummary.Results
RECURSIVE GroupByPackage(_, _)
GroupByPackage(results, grouped) ==
  IF results = <<>>
  THEN grouped
  ELSE LET testResult == Head(results)
           pkgName == testResult.Package
           entry == IF pkgName \in DOMAIN grouped
                    THEN grouped[pkgName]
                    ELSE NewPackageResults(pkgName)
           others == [p \in DOMAIN grouped \ {pkgName} |-> grouped[p]]
       IN  GroupByPackage(Tail(results), others @@ (pkgName :> AddTest(entry, testResult)))

EmptyMap == [k \in {} |-> 0]

\* SortStrings that sorts the names in descending order.
RECURSIVE SortStringsDescending(_)
SortStringsDescending(names) ==
  IF names = {}
  THEN <<>>
  ELSE LET greatest == CHOOSE n \in names : \A m \in names \ {n} : StringLess(m, n)
       IN  <<greatest>> \o SortStringsDescending(names \ {greatest})

\* sort.Strings(packageNames)
RECURSIVE SortStrings(_)
SortStrings(names) ==
  IF names = {}
  THEN <<>>
  ELSE LET least == CHOOSE n \in names : \A m \in names \ {n} : StringLess(n, m)
       IN  <<least>> \o SortStrings(names \ {least})

\* statusOrder[status]; a status the map does not hold gives 0.
StatusOrder(status) ==
  CASE status = StatusFail -> 3
    [] status = StatusSkip -> 2
    [] status = StatusPass -> 1
    [] OTHER -> 0

TestPrefix == <<"T", "e", "s", "t">>

\* The less function displayPackageBlock gives to sort.Slice.
TestLess(a, b) ==
  IF StatusOrder(a.Status) # StatusOrder(b.Status)
  THEN StatusOrder(a.Status) < StatusOrder(b.Status)
  ELSE StringLess(TrimPrefix(a.Name, TestPrefix), TrimPrefix(b.Name, TestPrefix))

\* What sort.Slice may leave in pkgResults.Tests: the sort is not stable, so
\* any arrangement of the tests that is ordered by TestLess.
SortedTests(tests) ==
  LET n == Len(tests)
      arrangements ==
        {order \in [1..n -> 1..n] : \A i, j \in 1..n : order[i] = order[j] => i = j}
  IN  {sorted \in {[i \in 1..n |-> tests[order[i]]] : order \in arrangements} :
         \A i, j \in 1..n : i < j => ~TestLess(sorted[j], sorted[i])}

\* The rows generateTestRows makes for one test: its own row, then one row
\* per output line of a failed test that is not blank.
TestRows(result) ==
  LET row == [kind |-> "test", Status |-> result.Status,
              Name |-> TrimPrefix(result.Name, TestPrefix), Duration |-> result.Duration]
      lines == SelectSeq(result.Output, LAMBDA line : TrimSpace(line) # <<>>)
  IN  IF result.Status = StatusFail /\ Len(result.Output) > 0
      THEN <<row>> \o [i \in 1..Len(lines) |-> [kind |-> "output", Line |-> lines[i]]]
      ELSE <<row>>

RECURSIVE generateTestRows(_)
generateTestRows(tests) ==
  IF tests = <<>> THEN <<>> ELSE TestRows(Head(tests)) \o generateTestRows(Tail(tests))

\* displayPackageBlock: the header's fields, the tests as sort.Slice left
\* them, and the rows of the table.
displayPackageBlock(pkgResults, sorted) ==
  [kind |-> "package", Name |-> pkgResults.Name, Status |-> pkgResults.Status,
   Duration |-> pkgResults.Duration, Total |-> pkgResults.Total,
   Passed |-> pkgResults.Passed, Failed |-> pkgResults.Failed,
   Skipped |-> pkgResults.Skipped, Tests |-> sorted, Rows |-> generateTestRows(sorted)]

displayOverallSummary(sm) ==
  [kind |-> "overall", Total |-> sm.Total, Passed |-> sm.Passed,
   Skipped |-> sm.Skipped, Failed |-> sm.Failed]

\* The outcomes of sort.Slice to choose from, one per package.
SortChoices(overallSummary) ==
  LET grouped == GroupByPackage(overallSummary.Results, EmptyMap)
      all == UNION {SortedTests(grouped[p].Tests) : p \in DOMAIN grouped}
  IN  {choice \in [DOMAIN grouped -> all] :
         \A p \in DOMAIN grouped : choice[p] \in SortedTests(grouped[p].Tests)}

\* renderBlocks of displayResults: one block per package, by package name,
\* then the overall summary.
displayResults(overallSummary, sortChoice) ==
  LET grouped == GroupByPackage(overallSummary.Results, EmptyMap)
      packageNames == SortStrings(DOMAIN grouped)
  IN  [i \in 1..Len(packageNames) |->
         displayPackageBlock(grouped[packageNames[i]], sortChoice[packageNames[i]])]
        \o <<displayOverallSummary(overallSummary)>>

\* ------------------------------------------------------------------- Init
EmptySummary == [Results |-> <<>>, Passed |-> 0, Failed |-> 0, Skipped |-> 0, Total |-> 0]

NotReturned == [summary |-> "none", err |-> "none"]

\* os.Exit has not been called.
NoExit == -1

\* The goroutines that call processEvent, and the value of mu when none
\* of them holds the mutex.
Workers == {"w1", "w2"}
NoWorker == "free"
NoEvent == [Action |-> "none"]

\* summary := &TestSummary{...}; testMap := make(map[string]*TestResult)
InitModel == testMap = EmptyMap /\ summary = EmptySummary

\* What is the same at the start of every specification.
InitCommon ==
  /\ applied = <<>>
  /\ report = <<>>
  /\ child = "none"
  /\ exitCode = 0
  /\ cmdErr = [kind |-> "none"]
  /\ stdoutPipe = <<>>
  /\ stdoutOpen = FALSE
  /\ stderrPipe = 0
  /\ stderrOpen = FALSE
  /\ written = <<>>
  /\ errWritten = 0
  /\ outPc = "idle"
  /\ outEnd = "none"
  /\ scanBuf = <<>>
  /\ consumed = <<>>
  /\ warnings = 0
  /\ errPc = "idle"
  /\ errEnd = "none"
  /\ forwarded = 0
  /\ wg = 0
  /\ ret = NotReturned
  /\ osExit = NoExit
  /\ mu = NoWorker
  /\ wPc = [w \in Workers |-> "idle"]
  /\ wEvent = [w \in Workers |-> NoEvent]
  /\ wExists = [w \in Workers |-> FALSE]

\* Execute calls runTests; prism was started without --verbose.
Init == InitCommon /\ InitModel /\ mainPc = "stdoutPipe" /\ verbose = FALSE

\* A fresh summary and testMap, about to be fed events directly.
InitEvents == InitCommon /\ InitModel /\ mainPc = "events" /\ verbose = FALSE

\* --------------------------------------------------------------- runTests
\* if err != nil { return nil, fmt.Errorf(...) }
ReturnError == [summary |-> "nil", err |-> "error"]

\* stdout, err := cmd.StdoutPipe(), which may fail.
StdoutPipe ==
  /\ mainPc = "stdoutPipe"
  /\ \/ mainPc' = "stderrPipe" /\ stdoutOpen' = TRUE /\ ret' = ret
     \/ mainPc' = "returned" /\ stdoutOpen' = stdoutOpen /\ ret' = ReturnError
  /\ UNCHANGED <<aggVars, childVars, outVars, errVars, cmdErr, stderrOpen, wg, report>>
  /\ UNCHANGED <<execVars, lockVars>>

\* stderr, err := cmd.StderrPipe(), which may fail.
StderrPipe ==
  /\ mainPc = "stderrPipe"
  /\ \/ mainPc' = "start" /\ stderrOpen' = TRUE /\ ret' = ret
     \/ mainPc' = "returned" /\ stderrOpen' = stderrOpen /\ ret' = ReturnError
  /\ UNCHANGED <<aggVars, childVars, outVars, errVars, cmdErr, stdoutOpen, wg, report>>
  /\ UNCHANGED <<execVars, lockVars>>

\* cmd.Start(), which may fail.
Start ==
  /\ mainPc = "start"
  /\ \/ mainPc' = "spawn" /\ child' = "running" /\ ret' = ret
     \/ mainPc' = "returned" /\ child' = child /\ ret' = ReturnError
  /\ UNCHANGED <<aggVars, exitCode, stdoutPipe, stderrPipe, written, errWritten>>
  /\ UNCHANGED <<outVars, errVars, cmdErr, stdoutOpen, stderrOpen, wg, report>>
  /\ UNCHANGED <<execVars, lockVars>>

\* summary, testMap, wg.Add(1) and the two `go func()` statements.  Only the
\* stdout goroutine is counted in the WaitGroup.
Spawn ==
  /\ mainPc = "spawn"
  /\ wg' = 1
  /\ outPc' = "scan"
  /\ errPc' = "scan"
  /\ mainPc' = "cmdWait"
  /\ UNCHANGED <<aggVars, childVars, outEnd, scanBuf, consumed, warnings>>
  /\ UNCHANGED <<errEnd, forwarded, cmdErr, stdoutOpen, stderrOpen, ret, report>>
  /\ UNCHANGED <<execVars, lockVars>>

\* The child writes one line to its standard output.
ChildWrite(line) ==
  /\ child = "running"
  /\ Len(written) < MaxLines
  /\ stdoutPipe' = Append(stdoutPipe, line)
  /\ written' = Append(written, line)
  /\ UNCHANGED <<aggVars, child, exitCode, stderrPipe, errWritten, outVars, errVars, mainVars>>
  /\ UNCHANGED <<execVars, lockVars>>

\* The child writes one line to its standard error.
ChildWriteErr ==
  /\ child = "running"
  /\ errWritten < MaxErrLines
  /\ stderrPipe' = stderrPipe + 1
  /\ errWritten' = errWritten + 1
  /\ UNCHANGED <<aggVars, child, exitCode, stdoutPipe, written, outVars, errVars, mainVars>>
  /\ UNCHANGED <<execVars, lockVars>>

\* The child exits, which closes its ends of the pipes.
ChildExit(code) ==
  /\ child = "running"
  /\ child' = "exited"
  /\ exitCode' = code
  /\ UNCHANGED <<aggVars, stdoutPipe, stderrPipe, written, errWritten, outVars, errVars, mainVars>>
  /\ UNCHANGED <<execVars, lockVars>>

\* The error of cmd.Wait for a child that exited with `code`.
ExitError(code) == IF code = 0 THEN [kind |-> "nil"] ELSE [kind |-> "exit", code |-> code]

\* An error of cmd.Wait that is no *exec.ExitError.
WaitError == [kind |-> "other"]

\* cmdErr := cmd.Wait(): returns once the child has exited, and closes the
\* parent's read ends of both pipes before it returns.
CmdWait ==
  /\ mainPc = "cmdWait"
  /\ child = "exited"
  /\ cmdErr' \in {ExitError(exitCode), WaitError}
  /\ stdoutOpen' = FALSE
  /\ stderrOpen' = FALSE
  /\ mainPc' = "wgWait"
  /\ UNCHANGED <<aggVars, childVars, outVars, errVars, wg, ret, report>>
  /\ UNCHANGED <<execVars, lockVars>>

\* WgWait that does not wait for the counter to reach zero.
WgWaitNoWait ==
  /\ mainPc = "wgWait"
  /\ mainPc' = "consolidate"
  /\ UNCHANGED <<aggVars, childVars, outVars, errVars>>
  /\ UNCHANGED <<cmdErr, stdoutOpen, stderrOpen, wg, ret, report>>
  /\ UNCHANGED <<execVars, lockVars>>

\* wg.Wait()
WgWait ==
  /\ mainPc = "wgWait"
  /\ wg = 0
  /\ mainPc' = "consolidate"
  /\ UNCHANGED <<aggVars, childVars, outVars, errVars>>
  /\ UNCHANGED <<cmdErr, stdoutOpen, stderrOpen, wg, ret, report>>
  /\ UNCHANGED <<execVars, lockVars>>

\* for _, result := range testMap { summary.Results = append(summary.Results, *result) }
ConsolidateResults ==
  /\ mainPc = "consolidate"
  /\ \E order \in RangeOrders(testMap) : summary' = Consolidated(testMap, summary, order)
  /\ mainPc' = "exitStatus"
  /\ UNCHANGED <<testMap, applied, childVars, outVars, errVars>>
  /\ UNCHANGED <<cmdErr, stdoutOpen, stderrOpen, wg, ret, report>>
  /\ UNCHANGED <<execVars, lockVars>>

ReturnSummary == [summary |-> "summary", err |-> "nil"]

\* ExitStatus without the `exitErr.ExitCode() == 1` test.
ExitStatusAnyExitError(err) ==
  IF err.kind # "nil"
  THEN IF err.kind = "exit" THEN ReturnSummary ELSE ReturnError
  ELSE ReturnSummary

\* if cmdErr != nil { ... } return summary, nil
ExitStatus(err) ==
  IF err.kind # "nil"
  THEN IF err.kind = "exit"
       THEN IF err.code = 1 THEN ReturnSummary ELSE ReturnError
       ELSE ReturnError
  ELSE ReturnSummary

Return ==
  /\ mainPc = "exitStatus"
  /\ ret' = ExitStatus(cmdErr)
  /\ mainPc' = "returned"
  /\ UNCHANGED <<aggVars, childVars, outVars, errVars>>
  /\ UNCHANGED <<cmdErr, stdoutOpen, stderrOpen, wg, report>>
  /\ UNCHANGED <<execVars, lockVars>>

\* ------------------------------------------------- the stdout goroutine
\* The scanner's buffer is empty and it reads what the pipe holds.
OutRead ==
  /\ outPc = "scan"
  /\ scanBuf = <<>>
  /\ stdoutOpen
  /\ stdoutPipe # <<>>
  /\ scanBuf' = stdoutPipe
  /\ stdoutPipe' = <<>>
  /\ UNCHANGED <<aggVars, child, exitCode, stderrPipe, written, errWritten>>
  /\ UNCHANGED <<outPc, outEnd, consumed, warnings, errVars, mainVars>>
  /\ UNCHANGED <<execVars, lockVars>>

\* ScanLine that leaves the loop on a line that fails to decode.
ScanLineAbort(line, tm, sm, w) ==
  IF line.valid
  THEN LET next == processEvent(line.event, tm, sm)
       IN  [tm |-> next.tm, sm |-> next.sm, warnings |-> w, continue |-> TRUE]
  ELSE [tm |-> tm, sm |-> sm, warnings |-> w + 1, continue |-> FALSE]

\* The body of `for scanner.Scan()` on one line: its effect on the model, on
\* the number of warnings, and whether the loop goes on.
ScanLine(line, tm, sm, w) ==
  IF line.valid
  THEN LET next == processEvent(line.event, tm, sm)
       IN  [tm |-> next.tm, sm |-> next.sm, warnings |-> w, continue |-> TRUE]
  ELSE [tm |-> tm, sm |-> sm, warnings |-> w + 1, continue |-> TRUE]

\* scanner.Scan() returns the next line, and the loop body runs on it.
OutScan ==
  /\ outPc = "scan"
  /\ scanBuf # <<>>
  /\ LET line == Head(scanBuf)
         step == ScanLine(line, testMap, summary, warnings)
     IN  /\ testMap' = step.tm
         /\ summary' = step.sm
         /\ warnings' = step.warnings
         /\ applied' = IF line.valid THEN Append(applied, line.event) ELSE applied
         /\ consumed' = Append(consumed, line)
         /\ outPc' = IF step.continue THEN "scan" ELSE "done"
         /\ outEnd' = IF step.continue THEN outEnd ELSE "eof"
         /\ wg' = IF step.continue THEN wg ELSE wg - 1
  /\ scanBuf' = Tail(scanBuf)
  /\ UNCHANGED <<childVars, errVars, mainPc, cmdErr, stdoutOpen, stderrOpen, ret, report>>
  /\ UNCHANGED <<execVars, lockVars>>

\* scanner.Scan() returns false at the end of the stream: the child has
\* exited and the pipe is empty.  scanner.Err() is nil; wg.Done() runs.
OutEOF ==
  /\ outPc = "scan"
  /\ scanBuf = <<>>
  /\ stdoutOpen
  /\ stdoutPipe = <<>>
  /\ child = "exited"
  /\ outPc' = "done"
  /\ outEnd' = "eof"
  /\ wg' = wg - 1
  /\ UNCHANGED <<aggVars, childVars, scanBuf, consumed, warnings, errVars>>
  /\ UNCHANGED <<mainPc, cmdErr, stdoutOpen, stderrOpen, ret, report>>
  /\ UNCHANGED <<execVars, lockVars>>

\* scanner.Scan() returns false because the read end was closed under it:
\* what the pipe still holds is never read.  "Error reading stdout" is
\* printed; wg.Done() runs.
OutReadError ==
  /\ outPc = "scan"
  /\ scanBuf = <<>>
  /\ ~stdoutOpen
  /\ outPc' = "done"
  /\ outEnd' = "error"
  /\ wg' = wg - 1
  /\ UNCHANGED <<aggVars, childVars, scanBuf, consumed, warnings, errVars>>
  /\ UNCHANGED <<mainPc, cmdErr, stdoutOpen, stderrOpen, ret, report>>
  /\ UNCHANGED <<execVars, lockVars>>

\* ------------------------------------------------- the stderr goroutine
\* ErrScan with its scanner made on stdout in place of stderr.
ErrScanReadsStdout ==
  /\ errPc = "scan"
  /\ stdoutOpen
  /\ stdoutPipe # <<>>
  /\ stdoutPipe' = Tail(stdoutPipe)
  /\ forwarded' = forwarded + 1
  /\ UNCHANGED <<aggVars, child, exitCode, stderrPipe, written, errWritten>>
  /\ UNCHANGED <<outVars, errPc, errEnd, mainVars>>
  /\ UNCHANGED <<execVars, lockVars>>

\* fmt.Fprintf(os.Stderr, "%s\n", scanner.Text()) for one line.
ErrScan ==
  /\ osExit = NoExit
  /\ errPc = "scan"
  /\ stderrOpen
  /\ stderrPipe > 0
  /\ stderrPipe' = stderrPipe - 1
  /\ forwarded' = forwarded + 1
  /\ UNCHANGED <<aggVars, child, exitCode, stdoutPipe, written, errWritten>>
  /\ UNCHANGED <<outVars, errPc, errEnd, mainVars>>
  /\ UNCHANGED <<execVars, lockVars>>

ErrEOF ==
  /\ osExit = NoExit
  /\ errPc = "scan"
  /\ stderrOpen
  /\ stderrPipe = 0
  /\ child = "exited"
  /\ errPc' = "done"
  /\ errEnd' = "eof"
  /\ UNCHANGED <<aggVars, childVars, outVars, forwarded, mainVars>>
  /\ UNCHANGED <<execVars, lockVars>>

ErrReadError ==
  /\ osExit = NoExit
  /\ errPc = "scan"
  /\ ~stderrOpen
  /\ errPc' = "done"
  /\ errEnd' = "error"
  /\ UNCHANGED <<aggVars, childVars, outVars, forwarded, mainVars>>
  /\ UNCHANGED <<execVars, lockVars>>

\* ---------------------------------------------------------------- Execute
\* summary, err := runTests(cmdArgs); if err != nil { ...; os.Exit(1) }
ExecuteError ==
  /\ mainPc = "returned"
  /\ ret.err = "error"
  /\ osExit' = 1
  /\ mainPc' = "exited"
  /\ UNCHANGED <<aggVars, childVars, outVars, errVars, lockVars, verbose>>
  /\ UNCHANGED <<cmdErr, stdoutOpen, stderrOpen, wg, ret, report>>

\* fullOutput := displayResults(summary); fmt.Println(...)
ExecuteDisplay ==
  /\ mainPc = "returned"
  /\ ret.err = "nil"
  /\ \E sortChoice \in SortChoices(summary) : report' = displayResults(summary, sortChoice)
  /\ mainPc' = "printed"
  /\ UNCHANGED <<aggVars, childVars, outVars, errVars, lockVars, execVars>>
  /\ UNCHANGED <<cmdErr, stdoutOpen, stderrOpen, wg, ret>>

\* if summary.Failed > 0 { os.Exit(1) }; os.Exit(0)
ExitCode(sm) == IF sm.Failed > 0 THEN 1 ELSE 0

ExecuteExit ==
  /\ mainPc = "printed"
  /\ osExit' = ExitCode(summary)
  /\ mainPc' = "exited"
  /\ UNCHANGED <<aggVars, childVars, outVars, errVars, lockVars, verbose>>
  /\ UNCHANGED <<cmdErr, stdoutOpen, stderrOpen, wg, ret, report>>

Next ==
  \/ StdoutPipe
  \/ StderrPipe
  \/ Start
  \/ Spawn
  \/ \E line \in StreamLines : ChildWrite(line)
  \/ ChildWriteErr
  \/ \E code \in ExitCodes : ChildExit(code)
  \/ CmdWait
  \/ WgWait
  \/ ConsolidateResults
  \/ Return
  \/ OutRead
  \/ OutScan
  \/ OutEOF
  \/ OutReadError
  \/ ErrScan
  \/ ErrEOF
  \/ ErrReadError
  \/ ExecuteError
  \/ ExecuteDisplay
  \/ ExecuteExit

Spec == Init /\ [][Next]_vars

\* ------------------------------------------------------- the event driver
\* One call processEvent(&event, testMap, summary).
ApplyEvent(event) ==
  /\ mainPc = "events"
  /\ Len(applied) < MaxEvents
  /\ LET next == processEvent(event, testMap, summary)
     IN  /\ testMap' = next.tm
         /\ summary' = next.sm
  /\ applied' = Append(applied, event)
  /\ UNCHANGED <<childVars, outVars, errVars, mainVars>>
  /\ UNCHANGED <<execVars, lockVars>>

\* for _, result := range testMap { summary.Results = append(summary.Results, *result) }
Consolidate ==
  /\ mainPc = "events"
  /\ \E order \in RangeOrders(testMap) : summary' = Consolidated(testMap, summary, order)
  /\ mainPc' = "consolidated"
  /\ UNCHANGED <<testMap, applied, childVars, outVars, errVars>>
  /\ UNCHANGED <<cmdErr, stdoutOpen, stderrOpen, wg, ret, report>>
  /\ UNCHANGED <<execVars, lockVars>>

\* Display whose sort.Slice works on overallSummary.Results itself.
DisplaySortsResults ==
  /\ mainPc = "consolidated"
  /\ \E sortChoice \in SortChoices(summary) : report' = displayResults(summary, sortChoice)
  /\ \E sorted \in SortedTests(summary.Results) : summary' = [summary EXCEPT !.Results = sorted]
  /\ mainPc' = "displayed"
  /\ UNCHANGED <<testMap, applied, childVars, outVars, errVars>>
  /\ UNCHANGED <<cmdErr, stdoutOpen, stderrOpen, wg, ret>>
  /\ UNCHANGED <<execVars, lockVars>>

\* fullOutput := displayResults(summary)
Display ==
  /\ mainPc = "consolidated"
  /\ \E sortChoice \in SortChoices(summary) : report' = displayResults(summary, sortChoice)
  /\ mainPc' = "displayed"
  /\ UNCHANGED <<aggVars, childVars, outVars, errVars>>
  /\ UNCHANGED <<cmdErr, stdoutOpen, stderrOpen, wg, ret>>
  /\ UNCHANGED <<execVars, lockVars>>

NextEvents ==
  \/ \E event \in TestEvents : ApplyEvent(event)
  \/ Consolidate
  \/ Display

SpecEvents == InitEvents /\ [][NextEvents]_vars

\* ----------------------------------------------------------- the reporter
\* A TestResult as processEvent leaves it.
TestResultOf(pair, status, output) ==
  [Name |-> pair[2], Package |-> pair[1], Status |-> status,
   Duration |-> DurationOf(ElapsedOf(status)), Output |-> output]

\* Execute is about to call displayResults(summary); prism was started with
\* or without --verbose.
InitReport == InitCommon /\ InitModel /\ mainPc = "consolidated" /\ verbose \in BOOLEAN

\* The summary runTests returned holds one more TestResult, of a key not
\* yet in the map, counted once.
AppendResult(result) ==
  /\ mainPc = "consolidated"
  /\ Len(summary.Results) < MaxResults
  /\ result.Package \o Slash \o result.Name \notin DOMAIN testMap
  /\ testMap' = testMap @@ (result.Package \o Slash \o result.Name :> result)
  /\ summary' = [CountTerminal(result.Status, summary) EXCEPT
                   !.Total = @ + 1, !.Results = Append(@, result)]
  /\ UNCHANGED <<applied, childVars, outVars, errVars, mainVars, execVars, lockVars>>

\* The TestResults a summary may hold.
ReportResults ==
  {TestResultOf(pair, outcome[1], outcome[2]) :
     pair \in ReportPairs, outcome \in ReportOutcomes}

NextReport ==
  \/ \E result \in ReportResults : AppendResult(result)
  \/ Display

SpecReport == InitReport /\ [][NextReport]_vars

\* --------------------------------------- processEvent, called concurrently
\* Goroutines that share one summary and one testMap, each calling
\* processEvent again and again.
InitWorkers == InitCommon /\ InitModel /\ mainPc = "workers" /\ verbose = FALSE

\* Goroutine w calls processEvent(&event, testMap, summary).  The test of
\* event.Test and the key read the event alone; an event with no test name
\* returns at once.
Call(w, event) ==
  /\ mainPc = "workers"
  /\ wPc[w] = "idle"
  /\ Len(applied) < MaxCalls
  /\ applied' = Append(applied, event)
  /\ wEvent' = [wEvent EXCEPT ![w] = event]
  /\ wPc' = [wPc EXCEPT ![w] = IF event.Test = <<>> THEN "idle" ELSE "lock"]
  /\ UNCHANGED <<testMap, summary, childVars, outVars, errVars, mainVars>>
  /\ UNCHANGED <<execVars, mu, wExists>>

\* Lock that does not wait for the mutex to be free.
LockWithoutWaiting(w) ==
  /\ wPc[w] = "lock"
  /\ mu' = w
  /\ wPc' = [wPc EXCEPT ![w] = "lookup"]
  /\ UNCHANGED <<aggVars, childVars, outVars, errVars, mainVars>>
  /\ UNCHANGED <<execVars, wEvent, wExists>>

\* summary.Lock(); defer summary.Unlock()
Lock(w) ==
  /\ wPc[w] = "lock"
  /\ mu = NoWorker
  /\ mu' = w
  /\ wPc' = [wPc EXCEPT ![w] = "lookup"]
  /\ UNCHANGED <<aggVars, childVars, outVars, errVars, mainVars>>
  /\ UNCHANGED <<execVars, wEvent, wExists>>

\* result, exists := testMap[key]
Lookup(w) ==
  /\ wPc[w] = "lookup"
  /\ LET exists == Key(wEvent[w]) \in DOMAIN testMap
     IN  /\ wExists' = [wExists EXCEPT ![w] = exists]
         /\ wPc' = [wPc EXCEPT ![w] = IF exists THEN "action" ELSE "create"]
  /\ UNCHANGED <<aggVars, childVars, outVars, errVars, mainVars>>
  /\ UNCHANGED <<execVars, mu, wEvent>>

\* result = &TestResult{...}; testMap[key] = result; summary.Total++
Create(w) ==
  /\ wPc[w] = "create"
  /\ LET key == Key(wEvent[w])
     IN  testMap' = [k \in DOMAIN testMap \cup {key} |->
                      IF k = key THEN NewTestResult(wEvent[w]) ELSE testMap[k]]
  /\ summary' = [summary EXCEPT !.Total = @ + 1]
  /\ wPc' = [wPc EXCEPT ![w] = "action"]
  /\ UNCHANGED <<applied, childVars, outVars, errVars, mainVars>>
  /\ UNCHANGED <<execVars, mu, wEvent, wExists>>

\* switch event.Action { ... }, on the result looked up or created
Act(w) ==
  /\ wPc[w] = "action"
  /\ LET next == ApplyAction(wEvent[w], testMap, summary)
     IN  /\ testMap' = next.tm
         /\ summary' = next.sm
  /\ wPc' = [wPc EXCEPT ![w] = "unlock"]
  /\ UNCHANGED <<applied, childVars, outVars, errVars, mainVars>>
  /\ UNCHANGED <<execVars, mu, wEvent, wExists>>

\* Unlock, had processEvent returned without releasing the mutex.
UnlockKeepsMutex(w) ==
  /\ wPc[w] = "unlock"
  /\ wPc' = [wPc EXCEPT ![w] = "idle"]
  /\ UNCHANGED <<aggVars, childVars, outVars, errVars, mainVars>>
  /\ UNCHANGED <<execVars, mu, wEvent, wExists>>

\* The deferred summary.Unlock(), as processEvent returns.
Unlock(w) ==
  /\ wPc[w] = "unlock"
  /\ mu' = NoWorker
  /\ wPc' = [wPc EXCEPT ![w] = "idle"]
  /\ UNCHANGED <<aggVars, childVars, outVars, errVars, mainVars>>
  /\ UNCHANGED <<execVars, wEvent, wExists>>

NextWorkers ==
  \/ \E w \in Workers, event \in WorkerEvents : Call(w, event)
  \/ \E w \in Workers : Lock(w)
  \/ \E w \in Workers : Lookup(w)
  \/ \E w \in Workers : Create(w)
  \/ \E w \in Workers : Act(w)
  \/ \E w \in Workers : Unlock(w)

SpecWorkers == InitWorkers /\ [][NextWorkers]_vars

\* ------------------------------------------- runTests, with fair scheduling
\* runTests with the calls of processEvent made by the stdout goroutine
\* taken step by step, and every goroutine scheduled again and again.
\* The stdout goroutine, as a caller of processEvent.
StdoutWorker == "w1"

\* Lines of the structured stream: a terminal event of one test, and an
\* output event that names no test.
LiveLines ==
  {EventLine(Event(StatusPass, <<"a">>, <<"c">>, <<>>, 1)),
   EventLine(Event(StatusOutput, <<"a">>, <<>>, <<"x", "\n">>, 0))}

\* scanner.Scan() returns the next line; json.Unmarshal; processEvent is
\* called, and returns at once for an event that names no test.
OutCall ==
  /\ outPc = "scan"
  /\ scanBuf # <<>>
  /\ LET line == Head(scanBuf)
     IN  /\ consumed' = Append(consumed, line)
         /\ warnings' = IF line.valid THEN warnings ELSE warnings + 1
         /\ applied' = IF line.valid THEN Append(applied, line.event) ELSE applied
         /\ wEvent' = IF line.valid
                      THEN [wEvent EXCEPT ![StdoutWorker] = line.event]
                      ELSE wEvent
         /\ IF line.valid /\ line.event.Test # <<>>
            THEN /\ outPc' = "call"
                 /\ wPc' = [wPc EXCEPT ![StdoutWorker] = "lock"]
            ELSE UNCHANGED <<outPc, wPc>>
  /\ scanBuf' = Tail(scanBuf)
  /\ UNCHANGED <<testMap, summary, childVars, outEnd, errVars, mainVars>>
  /\ UNCHANGED <<execVars, mu, wExists>>

\* processEvent has returned; the loop goes on.
OutReturn ==
  /\ outPc = "call"
  /\ wPc[StdoutWorker] = "idle"
  /\ outPc' = "scan"
  /\ UNCHANGED <<aggVars, childVars, outEnd, scanBuf, consumed, warnings>>
  /\ UNCHANGED <<errVars, mainVars, execVars, lockVars>>

\* The steps of the main goroutine in runTests.
MainStep ==
  \/ StdoutPipe
  \/ StderrPipe
  \/ Start
  \/ Spawn
  \/ CmdWait
  \/ WgWait
  \/ ConsolidateResults
  \/ Return

\* The steps of the stdout goroutine.
StdoutStep ==
  \/ OutRead
  \/ OutCall
  \/ Lock(StdoutWorker)
  \/ Lookup(StdoutWorker)
  \/ Create(StdoutWorker)
  \/ Act(StdoutWorker)
  \/ Unlock(StdoutWorker)
  \/ OutReturn
  \/ OutEOF
  \/ OutReadError

\* The steps of the stderr goroutine.
StderrStep ==
  \/ ErrScan
  \/ ErrEOF
  \/ ErrReadError

\* The steps of the `go test` process.
ChildStep ==
  \/ \E line \in LiveLines : ChildWrite(line)
  \/ ChildWriteErr
  \/ \E code \in ExitCodes : ChildExit(code)

NextLive ==
  \/ MainStep
  \/ StdoutStep
  \/ StderrStep
  \/ ChildStep

\* The Go scheduler runs every goroutine that can run, and the child
\* process exits at some time.
LiveFairness ==
  /\ WF_vars(MainStep)
  /\ WF_vars(StdoutStep)
  /\ WF_vars(StderrStep)
  /\ WF_vars(\E code \in ExitCodes : ChildExit(code))

SpecLive == Init /\ [][NextLive]_vars /\ LiveFairness

\* ================================================================= claims
\* ---------------------------------------------------------------- history
\* The events applied that name a test and whose map key is k.
EventsFor(k) == SelectSeq(applied, LAMBDA e : e.Test # <<>> /\ Key(e) = k)

TerminalEventsFor(k) == SelectSeq(EventsFor(k), LAMBDA e : e.Action \in Terminal)

OutputEventsFor(k) == SelectSeq(EventsFor(k), LAMBDA e : e.Action = StatusOutput)

\* The (scope, name) pairs of the events applied that name a test.
PairsSeen ==
  {<<applied[i].Package, applied[i].Test>> :
     i \in {j \in 1..Len(applied) : applied[j].Test # <<>>}}

IsBlank(s) == \A i \in 1..Len(s) : IsSpace(s[i])

\* The events of the lines that decode, in order.
EventsOf(lines) ==
  LET decoded == SelectSeq(lines, LAMBDA line : line.valid)
  IN  [i \in 1..Len(decoded) |-> decoded[i].event]

Malformed(lines) == SelectSeq(lines, LAMBDA line : ~line.valid)

\* processEvent applied to each event in turn.
RECURSIVE ApplyAll(_, _, _)
ApplyAll(events, tm, sm) ==
  IF events = <<>>
  THEN Model(tm, sm)
  ELSE LET next == processEvent(Head(events), tm, sm)
       IN  ApplyAll(Tail(events), next.tm, next.sm)

CountStatus(tests, status) ==
  Cardinality({i \in 1..Len(tests) : tests[i].Status = status})

\* --------------------------------------------------------------------- C1
\* C1: passed + failed + skipped <= total after any sequence of events,
\* also when a key receives several terminal events, and the sum equals
\* total once every observed key has received a terminal event.
C1_CountersWithinTotal ==
  LET counted == summary.Passed + summary.Failed + summary.Skipped
  IN  /\ counted <= summary.Total
      /\ (\A k \in DOMAIN testMap : TerminalEventsFor(k) # <<>>) => counted = summary.Total

\* --------------------------------------------------------------------- C2
\* C2: summary.Total is the number of distinct (scope, name) pairs that
\* appeared in the events with a non-empty test name, whatever characters
\* the scope and the name hold.
C2_TotalIsDistinctPairs == summary.Total = Cardinality(PairsSeen)

\* --------------------------------------------------------------------- C3
\* C3: there is at most one TestResult per (scope, name) pair, and an event
\* for pair (s, n) creates or mutates only the TestResult whose Package is
\* s and whose Name is n.
OneResultPerPair(tm) ==
  \A k1, k2 \in DOMAIN tm :
    (tm[k1].Package = tm[k2].Package /\ tm[k1].Name = tm[k2].Name) => k1 = k2

EventTouchesOwnResult ==
  applied' # applied =>
    LET event == applied'[Len(applied')]
    IN  \A k \in DOMAIN testMap' :
          (k \notin DOMAIN testMap \/ testMap'[k] # testMap[k]) =>
            (testMap'[k].Package = event.Package /\ testMap'[k].Name = event.Test)

C3_EventsKeepToTheirPair ==
  [][OneResultPerPair(testMap') /\ EventTouchesOwnResult]_vars

\* --------------------------------------------------------------------- C4
\* C4: when runTests returns its summary, every decodable line the child
\* wrote to its standard output has been applied to the model.
C4_NoEventDropped ==
  (mainPc = "returned" /\ ret.summary = "summary") => applied = EventsOf(written)

\* --------------------------------------------------------------------- C5
\* C5: runTests, once it has started its goroutines, returns only after the
\* child has exited and both consumers have reached the end of their
\* stream and finished.
C5_ReturnsAfterBothConsumers ==
  (mainPc = "returned" /\ outPc # "idle") =>
    /\ child = "exited"
    /\ outPc = "done" /\ outEnd = "eof"
    /\ errPc = "done" /\ errEnd = "eof"

\* --------------------------------------------------------------------- C6
\* C6: runTests returns (summary, nil) exactly when the child was started
\* and exited with code 0 or 1 and cmd.Wait reported that exit; in every
\* other case it returns (nil, error).
C6_ExitCodePolicy ==
  mainPc = "returned" =>
    IF child = "exited" /\ exitCode \in {0, 1} /\ cmdErr.kind \in {"nil", "exit"}
    THEN ret = [summary |-> "summary", err |-> "nil"]
    ELSE ret = [summary |-> "nil", err |-> "error"]

\* runTests has returned a summary for a child that exited with code 1, and
\* an error for another child.
C6_Witness ==
  /\ mainPc = "returned"
  /\ child = "exited"
  /\ exitCode = 1
  /\ cmdErr.kind = "exit"
  /\ ret.summary = "summary"

\* --------------------------------------------------------------------- C7
\* C7: a line that fails to decode does not end the aggregation: the model
\* is the one the decodable lines scanned so far give, one warning has
\* been printed per malformed line scanned, and a scanner that ended
\* without error has returned every line of the stream.
C7_MalformedLinesTolerated ==
  /\ Model(testMap, [summary EXCEPT !.Results = <<>>])
       = ApplyAll(EventsOf(consumed), EmptyMap, EmptySummary)
  /\ warnings = Len(Malformed(consumed))
  /\ outEnd = "eof" => consumed = written

\* The scanner reached the end of a stream in which a line that decodes
\* follows a malformed one.
C7_Witness ==
  /\ outEnd = "eof"
  /\ \E i, j \in 1..Len(consumed) : i < j /\ ~consumed[i].valid /\ consumed[j].valid
  /\ testMap # EmptyMap

C9_LastTerminalEventWins ==
  \A k \in DOMAIN testMap :
    LET terminal == TerminalEventsFor(k)
        last == terminal[Len(terminal)]
    IN  terminal # <<>> =>
          /\ testMap[k].Status = last.Action
          /\ testMap[k].Duration = last.Elapsed * NanosPerMilli

\* A key has received two terminal events of different actions.
C9_Witness ==
  \E k \in DOMAIN testMap :
    LET terminal == TerminalEventsFor(k)
    IN  Len(terminal) >= 2 /\ terminal[1].Action # terminal[Len(terminal)].Action

\* -------------------------------------------------------------------- C10
\* C10: a test whose key never received a terminal event has status
\* Running in the model and in summary.Results, and displayResults lists it
\* in its package with that status, counts it in the package's total and in
\* none of passed, failed and skipped.
NeverFinished == {k \in DOMAIN testMap : TerminalEventsFor(k) = <<>>}

\* The blocks of the report for package p.
PackageBlocks(p) ==
  SelectSeq(report, LAMBDA block : block.kind = "package" /\ block.Name = p)

C10_RunningIsSurfaced ==
  /\ \A k \in NeverFinished : testMap[k].Status = StatusRunning
  /\ mainPc \in {"consolidated", "displayed"} =>
       \A k \in NeverFinished :
         \E i \in 1..Len(summary.Results) :
           summary.Results[i] = testMap[k] /\ summary.Results[i].Status = StatusRunning
  /\ mainPc = "displayed" =>
       \A k \in NeverFinished :
         LET result == testMap[k]
             blocks == PackageBlocks(result.Package)
             pkg == blocks[1]
         IN  /\ Len(blocks) = 1
             /\ Cardinality({i \in 1..Len(pkg.Tests) : pkg.Tests[i] = result}) = 1
             /\ \E i \in 1..Len(pkg.Rows) :
                  /\ pkg.Rows[i].kind = "test"
                  /\ pkg.Rows[i].Name = TrimPrefix(result.Name, TestPrefix)
                  /\ pkg.Rows[i].Status = StatusRunning
             /\ pkg.Total = Len(pkg.Tests)
             /\ pkg.Passed = CountStatus(pkg.Tests, StatusPass)
             /\ pkg.Failed = CountStatus(pkg.Tests, StatusFail)
             /\ pkg.Skipped = CountStatus(pkg.Tests, StatusSkip)

\* displayResults has made the block of a package that holds a test still
\* running and a test that passed.
C10_Witness ==
  /\ mainPc = "displayed"
  /\ \E k \in NeverFinished :
       /\ Len(PackageBlocks(testMap[k].Package)) = 1
       /\ PackageBlocks(testMap[k].Package)[1].Total = 2
       /\ PackageBlocks(testMap[k].Package)[1].Passed = 1

\* -------------------------------------------------------------------- C11
\* C11: whatever the order of the TestResults in summary.Results, the status
\* of a package block is Failed if the package holds a failed test, else
\* Skipped if all its tests are skipped, else Passed.
ScopeStatus(tests) ==
  IF CountStatus(tests, StatusFail) > 0 THEN StatusFail
  ELSE IF CountStatus(tests, StatusSkip) = Len(tests) THEN StatusSkip
  ELSE StatusPass

C11_ScopeStatusRule ==
  mainPc = "displayed" =>
    \A i \in 1..Len(report) :
      report[i].kind = "package" => report[i].Status = ScopeStatus(report[i].Tests)

\* -------------------------------------------------------------------- C12
\* C12: in every package block the tests are ordered by status, Failed
\* before Skipped before Passed before Running, and tests of equal status
\* by name ascending, the names compared without a leading "Test".
InClaimedOrder(first, second) ==
  \/ StatusOrder(first.Status) > StatusOrder(second.Status)
  \/ /\ StatusOrder(first.Status) = StatusOrder(second.Status)
     /\ ~StringLess(TrimPrefix(second.Name, TestPrefix), TrimPrefix(first.Name, TestPrefix))

C12_FailedTestsFirst ==
  mainPc = "displayed" =>
    \A b \in 1..Len(report) :
      report[b].kind = "package" =>
        \A i, j \in 1..Len(report[b].Tests) :
          i < j => InClaimedOrder(report[b].Tests[i], report[b].Tests[j])

\* -------------------------------------------------------------------- C13
\* C13: the report does not depend on the order of summary.Results: for
\* every other order of the same TestResults displayResults gives the same
\* blocks in the same order, with the same statuses, counters and rows.
Arrangements(seq) ==
  LET n == Len(seq)
  IN  {[i \in 1..n |-> seq[order[i]]] :
         order \in {f \in [1..n -> 1..n] : \A i, j \in 1..n : f[i] = f[j] => i = j}}

C13_ReportIgnoresArrivalOrder ==
  mainPc = "displayed" =>
    \A results \in Arrangements(summary.Results) :
      LET other == [summary EXCEPT !.Results = results]
      IN  \A sortChoice \in SortChoices(other) : displayResults(other, sortChoice) = report

\* -------------------------------------------------------------------- C14
\* C14: when several goroutines call processEvent on the same summary and
\* test map, a goroutine looks up, inserts, mutates and counts only while
\* it holds the summary's mutex, and once every call has returned the model
\* is the one that applying the same events in some serial order gives.
InCriticalSection(w) == wPc[w] \in {"lookup", "create", "action", "unlock"}

C14_ProcessEventIsAtomic ==
  /\ \A w \in Workers : InCriticalSection(w) => mu = w
  /\ (\A w \in Workers : wPc[w] = "idle") =>
       \E order \in Arrangements(applied) :
         Model(testMap, summary) = ApplyAll(order, EmptyMap, EmptySummary)

\* A goroutine is in the switch of its call while another one, whose event
\* has the same key, waits for the mutex, and an earlier call has returned.
C14_Witness ==
  \E w, other \in Workers :
    /\ wPc[w] = "action"
    /\ wPc[other] = "lock"
    /\ Key(wEvent[w]) = Key(wEvent[other])
    /\ Len(applied) = MaxCalls

\* -------------------------------------------------------------------- C15
\* C15: a step of the stderr consumer leaves the result model, the stdout
\* consumer and what that consumer reads as they are, so the two consumers'
\* steps can be taken in any order; and the summary runTests ends with (its
\* counters and its set of TestResults) is the one the lines scanned from
\* the structured stream give, whatever the stderr consumer has done.
StderrConsumerStep == errPc = "scan" /\ (errVars' # errVars \/ stderrPipe' < stderrPipe)

FinalSummaryFromLines ==
  mainPc \in {"exitStatus", "returned"} /\ outPc = "done" =>
    LET model == ApplyAll(EventsOf(consumed), EmptyMap, EmptySummary)
    IN  /\ [summary EXCEPT !.Results = <<>>] = model.sm
        /\ {summary.Results[i] : i \in 1..Len(summary.Results)}
             = {model.tm[k] : k \in DOMAIN model.tm}
        /\ Len(summary.Results) = Cardinality(DOMAIN model.tm)

C15_ConsumersDoNotInterfere ==
  /\ [][StderrConsumerStep =>
          UNCHANGED <<aggVars, outVars, stdoutPipe, stdoutOpen, child, mainPc, ret>>]_vars
  /\ []FinalSummaryFromLines

\* runTests has returned a summary made from two lines of the structured
\* stream, and the stderr consumer has forwarded a line in between.
C15_Witness ==
  /\ mainPc = "returned"
  /\ ret.summary = "summary"
  /\ forwarded >= 1
  /\ Len(consumed) >= 2
  /\ summary.Total >= 1

\* -------------------------------------------------------------------- C16
\* C16: the report holds one package block per distinct package of
\* summary.Results, and the blocks are in ascending order of package name,
\* whatever the order in which the packages come in summary.Results.
PackagesOf(results) == {results[i].Package : i \in 1..Len(results)}

BlockNames ==
  LET blocks == SelectSeq(report, LAMBDA block : block.kind = "package")
  IN  [i \in 1..Len(blocks) |-> blocks[i].Name]

C16_BlocksByPackageName ==
  mainPc = "displayed" =>
    /\ {BlockNames[i] : i \in 1..Len(BlockNames)} = PackagesOf(summary.Results)
    /\ Len(BlockNames) = Cardinality(PackagesOf(summary.Results))
    /\ \A i, j \in 1..Len(BlockNames) : i < j => StringLess(BlockNames[i], BlockNames[j])

\* The report of a summary with three packages, the first of them in
\* summary.Results being the last by name.
C16_Witness ==
  /\ mainPc = "displayed"
  /\ Len(BlockNames) = 3
  /\ summary.Results[1].Package = BlockNames[3]

\* -------------------------------------------------------------------- C17
\* C17: a report of two or more packages holds one block per package and
\* exactly one overall summary block; a report of exactly one package holds
\* that package's block and no overall summary block.
OverallBlocks == SelectSeq(report, LAMBDA block : block.kind = "overall")

C17_OverallOnlyForSeveralScopes ==
  mainPc = "displayed" =>
    LET scopes == Cardinality(PackagesOf(summary.Results))
    IN  /\ scopes >= 1 => Len(BlockNames) = scopes
        /\ scopes >= 2 => Len(OverallBlocks) = 1
        /\ scopes = 1 => Len(OverallBlocks) = 0

\* -------------------------------------------------------------------- C18
\* The index of the test row that the output-line row i of `rows` follows.
OwnerIndex(rows, i) ==
  CHOOSE j \in 1..i : rows[j].kind = "test" /\ \A l \in (j + 1)..i : rows[l].kind = "output"

OwnerRow(rows, i) == rows[OwnerIndex(rows, i)]

\* C18: an output-line row follows a test's row only when the test is
\* Failed and the verbosity flag is set: without the flag no block holds an
\* output-line row, and with or without it no output-line row belongs to a
\* test that is Passed, Skipped or Running.
C18_OutputRowsNeedVerbose ==
  mainPc = "displayed" =>
    \A b \in 1..Len(report) :
      report[b].kind = "package" =>
        \A i \in 1..Len(report[b].Rows) :
          report[b].Rows[i].kind = "output" =>
            verbose /\ OwnerRow(report[b].Rows, i).Status = StatusFail

\* -------------------------------------------------------------------- C19
\* A delimiter line of the test framework: one that begins with "===".
IsDelimiter(line) == Len(line) >= 3 /\ SubSeq(line, 1, 3) = <<"=", "=", "=">>

\* The index of the row of the k-th test of a block.
TestRowIndex(rows, k) ==
  CHOOSE i \in 1..Len(rows) :
    rows[i].kind = "test" /\ Cardinality({l \in 1..i : rows[l].kind = "test"}) = k

\* The lines of the output-line rows that follow the test row j.
OutputLinesAfter(rows, j) ==
  LET owned == {i \in (j + 1)..Len(rows) :
                  rows[i].kind = "output" /\ OwnerIndex(rows, i) = j}
  IN  [n \in 1..Cardinality(owned) |-> rows[j + n].Line]

\* C19: among the rows of a Failed test none is for a blank line and none
\* for a delimiter line, verbose or not; in verbose mode every other output
\* line of the test has its row, once and in stored order.
C19_DelimiterLinesSuppressed ==
  mainPc = "displayed" =>
    \A b \in 1..Len(report) :
      report[b].kind = "package" =>
        \A k \in 1..Len(report[b].Tests) :
          report[b].Tests[k].Status = StatusFail =>
            LET emitted ==
                  OutputLinesAfter(report[b].Rows, TestRowIndex(report[b].Rows, k))
            IN  /\ \A n \in 1..Len(emitted) :
                     ~IsBlank(emitted[n]) /\ ~IsDelimiter(emitted[n])
                /\ verbose =>
                     emitted = SelectSeq(report[b].Tests[k].Output,
                                         LAMBDA line : ~IsBlank(line) /\ ~IsDelimiter(line))

\* -------------------------------------------------------------------- C20
\* C20: the exit code of prism is 0 exactly when runTests returned no error
\* and no test of the final results is Failed, and 1 otherwise, also when a
\* key received a fail event and later a pass event.
C20_ExitCodeFromFinalStatuses ==
  osExit # NoExit =>
    osExit = IF /\ ret.err = "nil"
                /\ \A i \in 1..Len(summary.Results) : summary.Results[i].Status # StatusFail
             THEN 0
             ELSE 1

\* -------------------------------------------------------------------- C21
\* C21: applying a terminal event a second time right after the first
\* changes nothing: the TestResults and the four counters are the same as
\* after applying it once.
C21_TerminalEventIdempotent ==
  [][(/\ applied' # applied
      /\ applied # <<>>
      /\ applied'[Len(applied')] = applied[Len(applied)]
      /\ applied[Len(applied)].Action \in Terminal)
       => (testMap' = testMap /\ summary' = summary)]_vars

\* -------------------------------------------------------------------- C22
\* C22: an event that names no test is discarded whatever its action:
\* applying it leaves the test map, every TestResult and the four counters
\* as they were.
C22_ScopeEventsDiscarded ==
  [][(applied' # applied /\ applied'[Len(applied')].Test = <<>>)
       => (testMap' = testMap /\ summary' = summary)]_vars

\* A failure and an output event that name no test were applied after an
\* event that made a TestResult.
C22_Witness ==
  /\ Len(applied) = 3
  /\ applied[1].Test # <<>>
  /\ applied[2].Test = <<>> /\ applied[2].Action = StatusFail
  /\ applied[3].Test = <<>> /\ applied[3].Action = StatusOutput
  /\ summary.Total = 1

\* -------------------------------------------------------------------- C23
\* The TestResult a key starts with, and what the action of `event` makes
\* of it.
FreshResult(event) ==
  [Name |-> event.Test, Package |-> event.Package, Status |-> StatusRunning,
   Duration |-> 0, Output |-> <<>>]

AfterOwnAction(event, result) ==
  CASE event.Action = StatusOutput ->
         IF IsBlank(event.Output)
         THEN result
         ELSE [result EXCEPT !.Output = Append(@, TrimSpace(event.Output))]
    [] event.Action \in Terminal ->
         [result EXCEPT !.Status = event.Action,
                        !.Duration = event.Elapsed * NanosPerMilli]
    [] OTHER -> result

\* C23: the first event for a key the map does not hold, whatever its
\* action, adds exactly one TestResult, for that key, which is a Running
\* one with zero duration and no output to which the event's action was
\* applied, and adds one to total; an event for a key the map holds adds no
\* TestResult and leaves total as it is.
C23_FirstEventCreates ==
  [][(applied' # applied /\ applied'[Len(applied')].Test # <<>>) =>
       LET event == applied'[Len(applied')]
       IN  IF Key(event) \notin DOMAIN testMap
           THEN /\ DOMAIN testMap' = DOMAIN testMap \cup {Key(event)}
                /\ testMap'[Key(event)] = AfterOwnAction(event, FreshResult(event))
                /\ summary'.Total = summary.Total + 1
           ELSE /\ DOMAIN testMap' = DOMAIN testMap
                /\ summary'.Total = summary.Total]_vars

\* Three events of different actions were applied for one key, the first of
\* them an output event.
C23_Witness ==
  /\ Len(applied) = 3
  /\ applied[1].Action = StatusOutput /\ applied[1].Test # <<>>
  /\ applied[2].Action = StatusFail /\ applied[2].Test # <<>>
  /\ applied[3].Action = StatusRun
  /\ Key(applied[1]) = Key(applied[2]) /\ Key(applied[2]) = Key(applied[3])
  /\ summary.Total = 1

\* -------------------------------------------------------------------- C24
KnownActions == {StatusRun, StatusOutput, StatusPass, StatusFail, StatusSkip}

\* C24: an event whose action is none of run, output, pass, fail, skip is
\* applied without error and changes neither the status, the duration or
\* the output lines of a TestResult, nor passed, failed or skipped.
C24_UnknownActionIgnored ==
  [][(applied' # applied /\ applied'[Len(applied')].Action \notin KnownActions) =>
       /\ \A k \in DOMAIN testMap : k \in DOMAIN testMap' /\ testMap'[k] = testMap[k]
       /\ \A k \in DOMAIN testMap' \ DOMAIN testMap :
            /\ testMap'[k].Status = StatusRunning
            /\ testMap'[k].Duration = 0
            /\ testMap'[k].Output = <<>>
       /\ summary'.Passed = summary.Passed
       /\ summary'.Failed = summary.Failed
       /\ summary'.Skipped = summary.Skipped]_vars

\* An event of an action processEvent has no case for was applied to a
\* test that had passed and held an output line.
C24_Witness ==
  /\ Len(applied) = 3
  /\ applied[3].Action \notin KnownActions
  /\ Key(applied[3]) \in DOMAIN testMap
  /\ testMap[Key(applied[3])].Status = StatusPass
  /\ testMap[Key(applied[3])].Output # <<>>

\* -------------------------------------------------------------------- C25
RECURSIVE SumDurations(_)
SumDurations(tests) ==
  IF tests = <<>> THEN 0 ELSE Head(tests).Duration + SumDurations(Tail(tests))

\* C25: in every package block total is the number of TestResults of the
\* summary that have the block's package, passed, failed and skipped are
\* the numbers of those with that status, the block's tests are exactly
\* those TestResults, each once, and its duration is the sum of theirs.
C25_ScopeCountersFromResults ==
  mainPc = "displayed" =>
    \A b \in 1..Len(report) :
      report[b].kind = "package" =>
        LET block == report[b]
            mine == SelectSeq(summary.Results, LAMBDA r : r.Package = block.Name)
        IN  /\ block.Total = Len(mine)
            /\ block.Passed = CountStatus(mine, StatusPass)
            /\ block.Failed = CountStatus(mine, StatusFail)
            /\ block.Skipped = CountStatus(mine, StatusSkip)
            /\ Len(block.Tests) = Len(mine)
            /\ \A i \in 1..Len(mine) :
                 Cardinality({j \in 1..Len(block.Tests) : block.Tests[j] = mine[i]})
                   = Cardinality({j \in 1..Len(mine) : mine[j] = mine[i]})
            /\ block.Duration = SumDurations(mine)

\* The report of two packages, one of them with a passed and a failed test
\* that took different times.
C25_Witness ==
  /\ mainPc = "displayed"
  /\ Len(BlockNames) = 2
  /\ \E b \in 1..Len(report) :
       /\ report[b].kind = "package"
       /\ report[b].Passed = 1
       /\ report[b].Failed = 1
       /\ report[b].Duration = 3 * NanosPerMilli

\* -------------------------------------------------------------------- C26
\* C26: displayResults leaves its input as it was: the call changes neither
\* summary.Results (its order and every TestResult) nor the four counters,
\* and calling it again on the summary gives the same report.
C26_ReporterKeepsItsInput ==
  /\ [][(mainPc = "consolidated" /\ mainPc' = "displayed") => summary' = summary]_vars
  /\ [](mainPc = "displayed" =>
          \A sortChoice \in SortChoices(summary) :
            displayResults(summary, sortChoice) = report)

\* displayResults was called on a summary whose first two results are of
\* one package and come in the other order in that package's block.
C26_Witness ==
  /\ mainPc = "displayed"
  /\ Len(summary.Results) >= 2
  /\ summary.Results[1].Package = summary.Results[2].Package
  /\ \E b \in 1..Len(report) :
       /\ report[b].kind = "package"
       /\ report[b].Tests = <<summary.Results[2], summary.Results[1]>>

\* -------------------------------------------------------------------- C27
IsPrefix(s, t) == Len(s) <= Len(t) /\ SubSeq(t, 1, Len(s)) = s

\* C27: in every step no TestResult is removed, total does not decrease, a
\* test's output lines are only extended at their end, and a test that is
\* Passed, Failed or Skipped does not become Running.
C27_ModelOnlyGrows ==
  [][/\ DOMAIN testMap \subseteq DOMAIN testMap'
     /\ summary'.Total >= summary.Total
     /\ \A k \in DOMAIN testMap :
          /\ testMap'[k].Name = testMap[k].Name
          /\ testMap'[k].Package = testMap[k].Package
          /\ IsPrefix(testMap[k].Output, testMap'[k].Output)
          /\ testMap[k].Status \in Terminal => testMap'[k].Status # StatusRunning]_vars

\* A test got an output line and failed, and then received a run event.
C27_Witness ==
  /\ Len(applied) = 3
  /\ applied[1].Action = StatusOutput /\ applied[1].Test # <<>>
  /\ applied[2].Action = StatusFail
  /\ applied[3].Action = StatusRun
  /\ \A i \in 2..3 : Key(applied[i]) = Key(applied[1])
  /\ Len(testMap[Key(applied[1])].Output) = 1
  /\ testMap[Key(applied[1])].Status = StatusFail

\* -------------------------------------------------------------------- C28
\* The TestResults of the model, in some order.
ModelResults == [i \in 1..Cardinality(DOMAIN testMap) |->
                   testMap[(CHOOSE order \in RangeOrders(testMap) : TRUE)[i]]]

RECURSIVE SumSeq(_)
SumSeq(numbers) == IF numbers = <<>> THEN 0 ELSE Head(numbers) + SumSeq(Tail(numbers))

\* C28: after any sequence of events passed, failed and skipped are the
\* numbers of TestResults that are Passed, Failed and Skipped, and so the
\* counters of the overall summary block are the sums of the counters of
\* the package blocks.
C28_CountersMatchStatuses ==
  /\ summary.Passed = CountStatus(ModelResults, StatusPass)
  /\ summary.Failed = CountStatus(ModelResults, StatusFail)
  /\ summary.Skipped = CountStatus(ModelResults, StatusSkip)
  /\ mainPc = "displayed" =>
       LET blocks == SelectSeq(report, LAMBDA block : block.kind = "package")
           overall == OverallBlocks[1]
       IN  /\ overall.Passed = SumSeq([i \in 1..Len(blocks) |-> blocks[i].Passed])
           /\ overall.Failed = SumSeq([i \in 1..Len(blocks) |-> blocks[i].Failed])
           /\ overall.Skipped = SumSeq([i \in 1..Len(blocks) |-> blocks[i].Skipped])

\* -------------------------------------------------------------------- C29
\* C29: when runTests returns a summary, summary.Results holds exactly one
\* entry per key of the test map, equal to that key's TestResult, so
\* len(Results) is summary.Total; and from the consolidation on the stdout
\* consumer has finished, so no processEvent call runs with or after the
\* copy.
C29_ResultsAreTheFinalMap ==
  /\ (mainPc = "returned" /\ ret.summary = "summary") =>
       /\ Len(summary.Results) = Cardinality(DOMAIN testMap)
       /\ {summary.Results[i] : i \in 1..Len(summary.Results)}
            = {testMap[k] : k \in DOMAIN testMap}
       /\ Len(summary.Results) = summary.Total
  /\ mainPc \in {"consolidate", "exitStatus", "returned", "printed", "exited"} =>
       outPc # "scan"

\* runTests has returned a summary of two tests.
C29_Witness ==
  /\ mainPc = "returned"
  /\ ret.summary = "summary"
  /\ summary.Total = 2
  /\ Len(consumed) = 3

\* -------------------------------------------------------------------- C30
\* C30: with every goroutine scheduled again and again and a child process
\* that exits, runTests returns at some time; the summary's mutex, once
\* taken by a processEvent call, is released at some time; and before
\* runTests has returned some step can always be taken.
C30_RunTestsReturns ==
  /\ <>(mainPc = "returned")
  /\ (mu # NoWorker) ~> (mu = NoWorker)
  /\ [](mainPc # "returned" => ENABLED NextLive)

\* runTests has returned after calls of processEvent for a new key, for a
\* key the map held and for an event that names no test.
C30_Witness ==
  /\ mainPc = "returned"
  /\ mu = NoWorker
  /\ Len(applied) = 3
  /\ summary.Total = 1
  /\ \E i \in 1..3 : applied[i].Test = <<>>

====
